---- MODULE Spec2Model ----
(***************************************************************************)
(* Model of ethspam (main.go): the weighted query registry (generator.Add, *)
(* generator.Query), the state producer goroutine, the worker goroutines,  *)
(* query() and the throughput loop of main.                                *)
(*                                                                         *)
(* Go slices are 0-based; sequences here are 1-based, so Go position p is  *)
(* sequence position p + 1.                                                *)
(***************************************************************************)
EXTENDS Integers, Sequences, FiniteSets, TLC

\* ---------------------------------------------------------------- bounds
\* Largest weight passed to Add.
MaxWeight == 3
\* Largest number of Add calls (distinct method names of the Methods map).
MaxAdds == 3
\* Largest number of generator.Query calls in the registry specification.
MaxQueries == 2
\* Largest value returned by State.RandInt64.
MaxRand == 9
\* Number of worker goroutines (the program starts 250).
numWorkers == 2
\* Largest number of snapshots Refresh produces.
MaxSnapshots == 2
\* Largest value of counter.
MaxCounter == 2

Methods == 1..MaxAdds
Workers == 1..numWorkers

VARIABLES
    queries,        \* generator.queries: sequence of [Method, Weight]
    totalWeight,    \* generator.totalWeight
    added,          \* the weights passed to Add, in call order
    queryCalls,     \* number of generator.Query calls made so far
    randDraws,      \* number of values drawn from the state's random source
    qweight,        \* the local `weight` of the last Query (-1: none drawn)
    qerr,           \* what the last Query returned
    qinvoked,       \* positions of the entries the last Query invoked
    genCalls,       \* number of Generate invocations so far
    wbuf,           \* requests written to the io.Writer handed to Query
    cancelled,      \* ctx.Done() is closed
    cancelledAt,    \* where the producer stood when cancel() was called
    exited,         \* the process has terminated (os.Exit or a panic)
    exitCode,       \* its exit code (-1 while running)
    stateChannel,   \* the buffered channel, capacity 1, of snapshot numbers
    snapshots,      \* number of snapshots Refresh has produced
    published,      \* number of snapshots sent on stateChannel
    prodPc,         \* position of the state producer goroutine
    newState,       \* the producer's local newState (0: none)
    refreshErr,     \* the producer's local err of its last Refresh
    pc,             \* position of each worker goroutine
    state,          \* each worker's local state (0: not yet received)
    buf,            \* each worker's local buf: requests it holds
    postErr,        \* each worker's outcome of http.Post inside query()
    invocations,    \* number of gen.Query calls each worker has made
    attempts,       \* number of times each worker has added 1 to counter
    counter,        \* the global counter
    prevCounter,    \* main's prevCounter
    reqsPerSecond,  \* the delta main last logged (-1: none yet)
    sumReported     \* sum of the deltas main has logged

genVars == <<queries, totalWeight>>
qryVars == <<added, queryCalls, randDraws, qweight, qerr, qinvoked, genCalls, wbuf>>
ctlVars == <<cancelled, cancelledAt, exited, exitCode>>
prodVars == <<stateChannel, snapshots, published, prodPc, newState, refreshErr>>
wrkVars == <<pc, state, buf, postErr, invocations, attempts>>
repVars == <<counter, prevCounter, reqsPerSecond, sumReported>>
vars == <<queries, totalWeight, added, queryCalls, randDraws, qweight, qerr,
          qinvoked, genCalls, wbuf, cancelled, cancelledAt, exited, exitCode, stateChannel,
          snapshots, published, prodPc, newState, refreshErr, pc, state, buf,
          postErr, invocations, attempts, counter, prevCounter, reqsPerSecond,
          sumReported>>

\* ------------------------------------------------------------- generator
\* RandomQuery{}: the zero value appended before the insertion point is
\* searched (Method 0 stands for the empty string).
ZeroQuery == [Method |-> 0, Weight |-> 0]

RandomQuery(m, w) == [Method |-> m, Weight |-> w]

\* sort.Search(n, f) started on the interval [i, j): binary search for the
\* smallest index at which f holds, probing the midpoint h = (i+j)/2 and
\* keeping [i, h) when f(h) holds and [h+1, j) otherwise.  Here f(h) is
\* the closure of Add: g.queries[h].Weight < query.Weight.
RECURSIVE SortSearch(_, _, _, _)
SortSearch(qs, w, i, j) ==
    IF i < j
    THEN LET h == (i + j) \div 2
         IN  IF ~(qs[h + 1].Weight < w)
             THEN SortSearch(qs, w, h + 1, j)
             ELSE SortSearch(qs, w, i, h)
    ELSE i

\* The slice after `g.queries = append(g.queries, RandomQuery{})` (or the
\* one-element slice made for a nil g.queries).
Grown(qs) == Append(qs, ZeroQuery)

\* copy(g.queries[idx+1:], g.queries[idx:]); g.queries[idx] = query
\* copy moves as memmove does: Go position p > idx receives the old p - 1.
InsertAt(qs, idx, query) ==
    [k \in 1..Len(qs) |->
        IF k - 1 = idx THEN query
        ELSE IF k - 1 > idx THEN qs[k - 1]
        ELSE qs[k]]

\* Add with the total assigned instead of accumulated.
AddAssignsTotal(g, query) ==
    LET qs  == Grown(g.queries)
        idx == SortSearch(qs, query.Weight, 0, Len(qs))
    IN  [queries     |-> InsertAt(qs, idx, query),
         totalWeight |-> query.Weight]

\* generator.Add: the registry after Add(query).
Add(g, query) ==
    LET qs  == Grown(g.queries)
        idx == SortSearch(qs, query.Weight, 0, Len(qs))
    IN  [queries     |-> InsertAt(qs, idx, query),
         totalWeight |-> g.totalWeight + query.Weight]

\* The loop with `current = q.Weight` in place of `current += q.Weight`.
RECURSIVE WalkNoAccumulate(_, _, _, _)
WalkNoAccumulate(qs, weight, i, current) ==
    IF i > Len(qs) THEN 0
    ELSE LET c == qs[i].Weight
         IN  IF c >= weight THEN i ELSE WalkNoAccumulate(qs, weight, i + 1, c)

\* The loop of generator.Query from position i with `current` accumulated:
\* the position of the first entry whose cumulative weight is >= weight,
\* or 0 when the range is exhausted (the panic after the loop).
RECURSIVE Walk(_, _, _, _)
Walk(qs, weight, i, current) ==
    IF i > Len(qs) THEN 0
    ELSE LET c == current + qs[i].Weight
         IN  IF c >= weight THEN i ELSE Walk(qs, weight, i + 1, c)

\* What a Generator may return: nil, io.EOF, or another error.
GenOutcomes == {"nil", "EOF", "error"}

\* The values s.RandInt64() may return.
RandInt64 == 0..MaxRand

\* Query drawing its random value before it looks at the registry.
QueryDrawsFirst(g, r, outcome) ==
    IF Len(g.queries) = 0
    THEN [err |-> "no query generators available", draws |-> 1,
          weight |-> -1, invoked |-> <<>>, wrote |-> 0]
    ELSE LET weight == r % g.totalWeight
             hit    == Walk(g.queries, weight, 1, 0)
         IN  IF hit = 0
             THEN [err |-> "panic", draws |-> 1, weight |-> weight,
                   invoked |-> <<>>, wrote |-> 0]
             ELSE [err |-> outcome, draws |-> 1, weight |-> weight,
                   invoked |-> <<hit>>,
                   wrote |-> IF outcome = "nil" THEN 1 ELSE 0]

\* generator.Query with the random value r and the invoked generator
\* returning `outcome`: the error returned, the number of random values
\* drawn, the local weight, the positions invoked and the requests written.
Query(g, r, outcome) ==
    IF Len(g.queries) = 0
    THEN [err |-> "no query generators available", draws |-> 0,
          weight |-> -1, invoked |-> <<>>, wrote |-> 0]
    ELSE LET weight == r % g.totalWeight
             hit    == Walk(g.queries, weight, 1, 0)
         IN  IF hit = 0
             THEN [err |-> "panic", draws |-> 1, weight |-> weight,
                   invoked |-> <<>>, wrote |-> 0]
             ELSE [err |-> outcome, draws |-> 1, weight |-> weight,
                   invoked |-> <<hit>>,
                   wrote |-> IF outcome = "nil" THEN 1 ELSE 0]

gen == [queries |-> queries, totalWeight |-> totalWeight]

\* The registry built by Add from a sequence of RandomQuery values.
RECURSIVE Built(_)
Built(qseq) ==
    IF Len(qseq) = 0 THEN [queries |-> <<>>, totalWeight |-> 0]
    ELSE Add(Built(SubSeq(qseq, 1, Len(qseq) - 1)), qseq[Len(qseq)])

MethodsOf(qs) == {qs[k].Method : k \in 1..Len(qs)}

\* ------------------------------------------ registry specification (SpecGen)
SysInit ==
    /\ cancelled = FALSE
    /\ cancelledAt = "none"
    /\ exited = FALSE
    /\ exitCode = -1
    /\ stateChannel = <<>>
    /\ snapshots = 0
    /\ published = 0
    /\ prodPc = "refresh"
    /\ newState = 0
    /\ refreshErr = "none"
    /\ pc = [w \in Workers |-> "start"]
    /\ state = [w \in Workers |-> 0]
    /\ buf = [w \in Workers |-> 0]
    /\ postErr = [w \in Workers |-> "none"]
    /\ invocations = [w \in Workers |-> 0]
    /\ attempts = [w \in Workers |-> 0]
    /\ counter = 0
    /\ prevCounter = 0
    /\ reqsPerSecond = -1
    /\ sumReported = 0

QryInit ==
    /\ added = <<>>
    /\ queryCalls = 0
    /\ randDraws = 0
    /\ qweight = -1
    /\ qerr = "none"
    /\ qinvoked = <<>>
    /\ genCalls = 0
    /\ wbuf = 0

\* gen := generator{}
InitGen ==
    /\ queries = <<>>
    /\ totalWeight = 0
    /\ QryInit
    /\ SysInit

\* gen.Add(RandomQuery{Method: m, Weight: w, ...}) during initialisation:
\* one call per key of the Methods map, before any Query.  The keys of a
\* map are distinct; the k-th key ranged over is named k.
GenAdd(m, w) ==
    /\ queryCalls = 0
    /\ Len(queries) < MaxAdds
    /\ m \notin MethodsOf(queries)
    /\ m = Len(queries) + 1
    /\ LET g == Add(gen, RandomQuery(m, w))
       IN  /\ queries' = g.queries
           /\ totalWeight' = g.totalWeight
    /\ added' = Append(added, w)
    /\ UNCHANGED <<queryCalls, randDraws, qweight, qerr, qinvoked, genCalls, wbuf>>
    /\ UNCHANGED <<ctlVars, prodVars, wrkVars, repVars>>

\* gen.Query(w, s) on the registry as built.
GenQuery(r, outcome) ==
    /\ queryCalls < MaxQueries
    /\ qerr \notin {"panic"}
    /\ LET res == Query(gen, r, outcome)
       IN  /\ qerr' = res.err
           /\ randDraws' = randDraws + res.draws
           /\ qweight' = res.weight
           /\ qinvoked' = res.invoked
           /\ genCalls' = genCalls + Len(res.invoked)
           /\ wbuf' = wbuf + res.wrote
    /\ queryCalls' = queryCalls + 1
    /\ UNCHANGED <<genVars, added>>
    /\ UNCHANGED <<ctlVars, prodVars, wrkVars, repVars>>

NextGen ==
    \/ \E m \in Methods, w \in 1..MaxWeight : GenAdd(m, w)
    \/ \E r \in RandInt64, outcome \in GenOutcomes : GenQuery(r, outcome)

SpecGen == InitGen /\ [][NextGen]_vars

\* ------------------------------------------------- program specification
\* The registries installDefaults hands to the goroutines here: one Add per
\* key of the Methods map, weights positive; an empty map, one method, and
\* two methods of different weights.
InitRegistries ==
    {Built(<<>>),
     Built(<<RandomQuery(1, 1)>>),
     Built(<<RandomQuery(1, 1), RandomQuery(2, 2)>>)}

\* The state when main has built gen, ctx and stateChannel and has started
\* the producer and the worker goroutines.
Init ==
    /\ \E g \in InitRegistries :
          /\ queries = g.queries
          /\ totalWeight = g.totalWeight
    /\ QryInit
    /\ SysInit

\* cancel(): ctx.Done() is closed.
Cancel ==
    /\ ~exited
    /\ ~cancelled
    /\ cancelled' = TRUE
    /\ cancelledAt' = prodPc
    /\ UNCHANGED <<exited, exitCode>>
    /\ UNCHANGED <<genVars, qryVars, prodVars, wrkVars, repVars>>

\* exit(code, ...): os.Exit ends every goroutine.
Exit(code) ==
    /\ exited' = TRUE
    /\ exitCode' = code
    /\ UNCHANGED <<cancelled, cancelledAt>>

\* An unrecovered panic in a goroutine ends the process with status 2.
Panic ==
    /\ exited' = TRUE
    /\ exitCode' = 2
    /\ UNCHANGED <<cancelled, cancelledAt>>

\* ---- state producer goroutine
\* Refresh handing back the state it was given instead of a new one.
RefreshOkStale ==
    /\ ~exited
    /\ prodPc = "refresh"
    /\ snapshots < MaxSnapshots
    /\ snapshots' = snapshots + 1
    /\ newState' = snapshots
    /\ refreshErr' = "nil"
    /\ prodPc' = "publish"
    /\ UNCHANGED <<stateChannel, published>>
    /\ UNCHANGED <<genVars, qryVars, ctlVars, wrkVars, repVars>>

\* newState, err := mkState.Refresh(&state) with err == nil.
RefreshOk ==
    /\ ~exited
    /\ prodPc = "refresh"
    /\ snapshots < MaxSnapshots
    /\ snapshots' = snapshots + 1
    /\ newState' = snapshots + 1
    /\ refreshErr' = "nil"
    /\ prodPc' = "publish"
    /\ UNCHANGED <<stateChannel, published>>
    /\ UNCHANGED <<genVars, qryVars, ctlVars, wrkVars, repVars>>

\* errEmptyBlock not told apart from the other errors: exit(2).
RefreshEmptyBlockFatal ==
    /\ ~exited
    /\ prodPc = "refresh"
    /\ refreshErr' = "errEmptyBlock"
    /\ Exit(2)
    /\ UNCHANGED <<stateChannel, snapshots, published, prodPc, newState>>
    /\ UNCHANGED <<genVars, qryVars, wrkVars, repVars>>

\* Refresh returns errEmptyBlock: the producer enters the 5 second select.
RefreshEmptyBlock ==
    /\ ~exited
    /\ prodPc = "refresh"
    /\ prodPc' = "backoff"
    /\ refreshErr' = "errEmptyBlock"
    /\ UNCHANGED <<stateChannel, snapshots, published, newState>>
    /\ UNCHANGED <<genVars, qryVars, ctlVars, wrkVars, repVars>>

\* Every error of Refresh backed off and retried like errEmptyBlock.
RefreshFailsRetries ==
    /\ ~exited
    /\ prodPc = "refresh"
    /\ refreshErr' = "error"
    /\ prodPc' = "backoff"
    /\ UNCHANGED <<stateChannel, snapshots, published, newState>>
    /\ UNCHANGED <<genVars, qryVars, ctlVars, wrkVars, repVars>>

\* Refresh returns another error: exit(2, "failed to refresh state").
RefreshFails ==
    /\ ~exited
    /\ prodPc = "refresh"
    /\ refreshErr' = "error"
    /\ Exit(2)
    /\ UNCHANGED <<stateChannel, snapshots, published, prodPc, newState>>
    /\ UNCHANGED <<genVars, qryVars, wrkVars, repVars>>

\* select { case <-time.After(5 * time.Second): } then continue.
BackoffElapsed ==
    /\ ~exited
    /\ prodPc = "backoff"
    /\ ~cancelled
    /\ prodPc' = "refresh"
    /\ UNCHANGED <<stateChannel, snapshots, published, newState, refreshErr>>
    /\ UNCHANGED <<genVars, qryVars, ctlVars, wrkVars, repVars>>

\* select { case <-ctx.Done(): return } of the backoff.
BackoffDone ==
    /\ ~exited
    /\ prodPc = "backoff"
    /\ cancelled
    /\ prodPc' = "returned"
    /\ UNCHANGED <<stateChannel, snapshots, published, newState, refreshErr>>
    /\ UNCHANGED <<genVars, qryVars, ctlVars, wrkVars, repVars>>

\* select { case stateChannel <- newState: }: ready while the channel of
\* capacity 1 has room.
Publish ==
    /\ ~exited
    /\ prodPc = "publish"
    /\ Len(stateChannel) < 1
    /\ stateChannel' = Append(stateChannel, newState)
    /\ published' = published + 1
    /\ prodPc' = "interval"
    /\ UNCHANGED <<snapshots, newState, refreshErr>>
    /\ UNCHANGED <<genVars, qryVars, ctlVars, wrkVars, repVars>>

\* select { case <-ctx.Done(): return } of the publish.
PublishDone ==
    /\ ~exited
    /\ prodPc = "publish"
    /\ cancelled
    /\ prodPc' = "returned"
    /\ UNCHANGED <<stateChannel, snapshots, published, newState, refreshErr>>
    /\ UNCHANGED <<genVars, qryVars, ctlVars, wrkVars, repVars>>

\* select { case <-time.After(15 * time.Second): }, then the next iteration.
IntervalElapsed ==
    /\ ~exited
    /\ prodPc = "interval"
    /\ ~cancelled
    /\ prodPc' = "refresh"
    /\ UNCHANGED <<stateChannel, snapshots, published, newState, refreshErr>>
    /\ UNCHANGED <<genVars, qryVars, ctlVars, wrkVars, repVars>>

\* select { case <-ctx.Done(): } of the interval: the case has no return,
\* so the loop goes on to its next iteration.
IntervalDone ==
    /\ ~exited
    /\ prodPc = "interval"
    /\ cancelled
    /\ prodPc' = "refresh"
    /\ UNCHANGED <<stateChannel, snapshots, published, newState, refreshErr>>
    /\ UNCHANGED <<genVars, qryVars, ctlVars, wrkVars, repVars>>

\* ---- worker goroutines
\* Requests the workers are about to count.
InFlight == Cardinality({v \in Workers : pc[v] \in {"query", "post", "posted"}})

\* The start-up read taking the snapshot without removing it from the
\* channel.
WorkerStartPeeks(w) ==
    /\ ~exited
    /\ pc[w] = "start"
    /\ Len(stateChannel) > 0
    /\ state' = [state EXCEPT ![w] = Head(stateChannel)]
    /\ pc' = [pc EXCEPT ![w] = "select"]
    /\ UNCHANGED <<buf, postErr, invocations, attempts>>
    /\ UNCHANGED <<stateChannel, snapshots, published, prodPc, newState, refreshErr>>
    /\ UNCHANGED <<genVars, qryVars, ctlVars, repVars>>

\* state := <-stateChannel: blocks until the channel holds a snapshot.
WorkerStart(w) ==
    /\ ~exited
    /\ pc[w] = "start"
    /\ Len(stateChannel) > 0
    /\ state' = [state EXCEPT ![w] = Head(stateChannel)]
    /\ stateChannel' = Tail(stateChannel)
    /\ pc' = [pc EXCEPT ![w] = "select"]
    /\ UNCHANGED <<buf, postErr, invocations, attempts>>
    /\ UNCHANGED <<snapshots, published, prodPc, newState, refreshErr>>
    /\ UNCHANGED <<genVars, qryVars, ctlVars, repVars>>

\* select { case state = <-stateChannel: }
SelectRecv(w) ==
    /\ ~exited
    /\ pc[w] = "select"
    /\ Len(stateChannel) > 0
    /\ counter + InFlight < MaxCounter
    /\ state' = [state EXCEPT ![w] = Head(stateChannel)]
    /\ stateChannel' = Tail(stateChannel)
    /\ pc' = [pc EXCEPT ![w] = "query"]
    /\ UNCHANGED <<buf, postErr, invocations, attempts>>
    /\ UNCHANGED <<snapshots, published, prodPc, newState, refreshErr>>
    /\ UNCHANGED <<genVars, qryVars, ctlVars, repVars>>

\* select { case <-ctx.Done(): return }
SelectDone(w) ==
    /\ ~exited
    /\ pc[w] = "select"
    /\ cancelled
    /\ pc' = [pc EXCEPT ![w] = "returned"]
    /\ UNCHANGED <<state, buf, postErr, invocations, attempts>>
    /\ UNCHANGED <<genVars, qryVars, ctlVars, prodVars, repVars>>

\* The select without its default case: with nothing to receive and ctx
\* not cancelled the worker waits.
SelectWithoutDefault(w) ==
    /\ ~exited
    /\ pc[w] = "select"
    /\ FALSE
    /\ UNCHANGED vars

\* select { default: }: taken when no other case is ready.
SelectDefault(w) ==
    /\ ~exited
    /\ pc[w] = "select"
    /\ Len(stateChannel) = 0
    /\ ~cancelled
    /\ counter + InFlight < MaxCounter
    /\ pc' = [pc EXCEPT ![w] = "query"]
    /\ UNCHANGED <<state, buf, postErr, invocations, attempts>>
    /\ UNCHANGED <<genVars, qryVars, ctlVars, prodVars, repVars>>

\* The worker loop with io.EOF handled like any other error: exit(2).
WorkerQueryEOFExits(w, r, outcome) ==
    /\ ~exited
    /\ pc[w] = "query"
    /\ LET res == Query(gen, r, outcome)
       IN  CASE res.err = "nil" ->
                  /\ buf' = [buf EXCEPT ![w] = buf[w] + res.wrote]
                  /\ pc' = [pc EXCEPT ![w] = "post"]
                  /\ UNCHANGED ctlVars
             [] res.err = "panic" ->
                  /\ pc' = [pc EXCEPT ![w] = "panicked"]
                  /\ Panic
                  /\ UNCHANGED buf
             [] OTHER ->
                  /\ pc' = [pc EXCEPT ![w] = IF res.err = "EOF" THEN "done" ELSE "exited"]
                  /\ Exit(2)
                  /\ UNCHANGED buf
    /\ invocations' = [invocations EXCEPT ![w] = invocations[w] + 1]
    /\ UNCHANGED <<state, postErr, attempts>>
    /\ UNCHANGED <<genVars, qryVars, prodVars, repVars>>

\* The worker loop calling query() before it looks at err: the request that
\* met io.EOF is sent and counted too.
WorkerQueryEOFCounts(w, r, outcome) ==
    /\ ~exited
    /\ pc[w] = "query"
    /\ LET res == Query(gen, r, outcome)
       IN  CASE res.err = "nil" ->
                  /\ buf' = [buf EXCEPT ![w] = buf[w] + res.wrote]
                  /\ pc' = [pc EXCEPT ![w] = "post"]
                  /\ UNCHANGED <<ctlVars, attempts, counter>>
             [] res.err = "EOF" ->
                  /\ pc' = [pc EXCEPT ![w] = "done"]
                  /\ attempts' = [attempts EXCEPT ![w] = attempts[w] + 1]
                  /\ counter' = counter + 1
                  /\ UNCHANGED <<buf, ctlVars>>
             [] res.err = "panic" ->
                  /\ pc' = [pc EXCEPT ![w] = "panicked"]
                  /\ Panic
                  /\ UNCHANGED <<buf, attempts, counter>>
             [] OTHER ->
                  /\ pc' = [pc EXCEPT ![w] = "exited"]
                  /\ Exit(2)
                  /\ UNCHANGED <<buf, attempts, counter>>
    /\ invocations' = [invocations EXCEPT ![w] = invocations[w] + 1]
    /\ UNCHANGED <<state, postErr, prevCounter, reqsPerSecond, sumReported>>
    /\ UNCHANGED <<genVars, qryVars, prodVars>>

\* err := gen.Query(buf, state) and the three branches on err; on io.EOF
\* the goroutine prints "query gen EOF" and returns ("done").
WorkerQuery(w, r, outcome) ==
    /\ ~exited
    /\ pc[w] = "query"
    /\ LET res == Query(gen, r, outcome)
       IN  CASE res.err = "nil" ->
                  /\ buf' = [buf EXCEPT ![w] = buf[w] + res.wrote]
                  /\ pc' = [pc EXCEPT ![w] = "post"]
                  /\ UNCHANGED ctlVars
             [] res.err = "EOF" ->
                  /\ pc' = [pc EXCEPT ![w] = "done"]
                  /\ UNCHANGED <<buf, ctlVars>>
             [] res.err = "panic" ->
                  /\ pc' = [pc EXCEPT ![w] = "panicked"]
                  /\ Panic
                  /\ UNCHANGED buf
             [] OTHER ->
                  /\ pc' = [pc EXCEPT ![w] = "exited"]
                  /\ Exit(2)
                  /\ UNCHANGED buf
    /\ invocations' = [invocations EXCEPT ![w] = invocations[w] + 1]
    /\ UNCHANGED <<state, postErr, attempts>>
    /\ UNCHANGED <<genVars, qryVars, prodVars, repVars>>

\* What http.Post may return: no error, an error with a nil response (a
\* failed connection), an error with a response (a failed redirect).
PostOutcomes == {"none", "nilResp", "withResp"}

\* resp, err := http.Post(endpoint, "application/json", queryBuf)
WorkerPost(w, e) ==
    /\ ~exited
    /\ pc[w] = "post"
    /\ postErr' = [postErr EXCEPT ![w] = e]
    /\ pc' = [pc EXCEPT ![w] = "posted"]
    /\ UNCHANGED <<state, buf, invocations, attempts>>
    /\ UNCHANGED <<genVars, qryVars, ctlVars, prodVars, repVars>>

\* query() with `counter = counter + 1` on a value of counter read earlier
\* in place of atomic.AddInt64.
WorkerCountRacy(w) ==
    /\ ~exited
    /\ pc[w] = "posted"
    /\ IF postErr[w] = "nilResp"
       THEN /\ pc' = [pc EXCEPT ![w] = "panicked"]
            /\ Panic
            /\ UNCHANGED <<buf, postErr, counter, attempts>>
       ELSE /\ \E c \in 0..counter : counter' = c + 1
            /\ attempts' = [attempts EXCEPT ![w] = attempts[w] + 1]
            /\ buf' = [buf EXCEPT ![w] = 0]
            /\ postErr' = [postErr EXCEPT ![w] = "none"]
            /\ pc' = [pc EXCEPT ![w] = "select"]
            /\ UNCHANGED ctlVars
    /\ UNCHANGED <<state, invocations, prevCounter, reqsPerSecond, sumReported>>
    /\ UNCHANGED <<genVars, qryVars, prodVars>>

\* The rest of query() and buf.Reset(): with err != nil the arguments of
\* log.Printf read resp.StatusCode, which panics on a nil resp; otherwise
\* atomic.AddInt64(&counter, 1), and the loop resets buf.
WorkerCount(w) ==
    /\ ~exited
    /\ pc[w] = "posted"
    /\ IF postErr[w] = "nilResp"
       THEN /\ pc' = [pc EXCEPT ![w] = "panicked"]
            /\ Panic
            /\ UNCHANGED <<buf, postErr, counter, attempts>>
       ELSE /\ counter' = counter + 1
            /\ attempts' = [attempts EXCEPT ![w] = attempts[w] + 1]
            /\ buf' = [buf EXCEPT ![w] = 0]
            /\ postErr' = [postErr EXCEPT ![w] = "none"]
            /\ pc' = [pc EXCEPT ![w] = "select"]
            /\ UNCHANGED ctlVars
    /\ UNCHANGED <<state, invocations, prevCounter, reqsPerSecond, sumReported>>
    /\ UNCHANGED <<genVars, qryVars, prodVars>>

\* ---- main's loop
\* The loop without `prevCounter = currentCounter`.
ReportKeepsPrev ==
    /\ ~exited
    /\ reqsPerSecond' = counter - prevCounter
    /\ sumReported' = sumReported + (counter - prevCounter)
    /\ UNCHANGED <<counter, prevCounter>>
    /\ UNCHANGED <<genVars, qryVars, ctlVars, prodVars, wrkVars>>

\* currentCounter := atomic.LoadInt64(&counter); the delta is logged and
\* prevCounter takes the reading.
Report ==
    /\ ~exited
    /\ reqsPerSecond' = counter - prevCounter
    /\ prevCounter' = counter
    /\ sumReported' = sumReported + (counter - prevCounter)
    /\ UNCHANGED counter
    /\ UNCHANGED <<genVars, qryVars, ctlVars, prodVars, wrkVars>>

Next ==
    \/ Cancel
    \/ RefreshOk
    \/ RefreshEmptyBlock
    \/ RefreshFails
    \/ BackoffElapsed
    \/ BackoffDone
    \/ Publish
    \/ PublishDone
    \/ IntervalElapsed
    \/ IntervalDone
    \/ \E w \in Workers : WorkerStart(w)
    \/ \E w \in Workers : SelectRecv(w)
    \/ \E w \in Workers : SelectDone(w)
    \/ \E w \in Workers : SelectDefault(w)
    \/ \E w \in Workers, r \in RandInt64, outcome \in GenOutcomes : WorkerQuery(w, r, outcome)
    \/ \E w \in Workers, e \in PostOutcomes : WorkerPost(w, e)
    \/ \E w \in Workers : WorkerCount(w)
    \/ Report

Spec == Init /\ [][Next]_vars

\* The program as main runs it: cancel() is only deferred, main never
\* returns once the goroutines are started and exit() skips deferred calls,
\* so ctx.Done() is never closed and no ctx.Done() case is taken.
NextRun ==
    \/ RefreshOk
    \/ RefreshEmptyBlock
    \/ RefreshFails
    \/ BackoffElapsed
    \/ Publish
    \/ IntervalElapsed
    \/ \E w \in Workers : WorkerStart(w)
    \/ \E w \in Workers : SelectRecv(w)
    \/ \E w \in Workers : SelectDefault(w)
    \/ \E w \in Workers, r \in RandInt64, outcome \in GenOutcomes : WorkerQuery(w, r, outcome)
    \/ \E w \in Workers, e \in PostOutcomes : WorkerPost(w, e)
    \/ \E w \in Workers : WorkerCount(w)
    \/ Report

SpecRun == Init /\ [][NextRun]_vars

\* ---------------------------------------------------- registry properties
RECURSIVE SumSeq(_)
SumSeq(ws) == IF Len(ws) = 0 THEN 0 ELSE ws[1] + SumSeq(Tail(ws))

\* The draws in [0, totalWeight) for which Query invokes the entry at
\* position i.
DrawsSelecting(i) ==
    {d \in 0..(totalWeight - 1) : Query(gen, d, "nil").invoked = <<i>>}

\* C1: after any sequence of Add calls with positive weights the entries of
\* the registry are sorted ascending by weight: every adjacent pair has
\* queries[i].Weight <= queries[i+1].Weight.
C1_SortedAscending ==
    \A i \in 1..(Len(queries) - 1) : queries[i].Weight <= queries[i + 1].Weight

\* C2: weighted selection is exactly proportional: for every entry i the
\* number of draws in [0, totalWeight) for which Query invokes entry i is
\* exactly the weight of entry i.
C2_ExactlyProportional ==
    \A i \in 1..Len(queries) : Cardinality(DrawsSelecting(i)) = queries[i].Weight

\* C8: after any sequence of Add calls with positive weights totalWeight is
\* the exact sum of the weights added, the registry holds one entry per
\* Add, and totalWeight > 0 whenever the registry is non-empty.
C8_TotalWeightIsSum ==
    /\ totalWeight = SumSeq(added)
    /\ Len(queries) = Len(added)
    /\ (Len(queries) > 0 => totalWeight > 0)

C8_Witness == Len(added) >= 2 /\ totalWeight = SumSeq(added) /\ totalWeight >= 3

\* C9: a Query call on an empty registry returns the "no query generators
\* available" error and has no side effect: no random value is drawn, no
\* generator is invoked, nothing is written, the registry is unchanged.
C9_EmptyQueryNoSideEffects ==
    [][(Len(queries) = 0 /\ queryCalls' = queryCalls + 1) =>
          /\ qerr' = "no query generators available"
          /\ randDraws' = randDraws
          /\ genCalls' = genCalls
          /\ qinvoked' = <<>>
          /\ wbuf' = wbuf
          /\ queries' = queries
          /\ totalWeight' = totalWeight]_vars

C9_Witness ==
    /\ Len(queries) = 0
    /\ queryCalls >= 1
    /\ qerr = "no query generators available"
    /\ randDraws = 0

\* C10: on a non-empty registry every draw in [0, totalWeight) is covered
\* by some entry of the walk, a Query call invokes exactly one generator,
\* and the panic after the loop is never reached.
C10_WalkFindsEntry ==
    /\ qerr # "panic"
    /\ \A d \in 0..(totalWeight - 1) : Walk(queries, d, 1, 0) \in 1..Len(queries)
    /\ (Len(queries) > 0 /\ queryCalls > 0) =>
          /\ Len(qinvoked) = 1
          /\ qinvoked[1] \in 1..Len(queries)
          /\ qweight \in 0..(totalWeight - 1)

C10_Witness ==
    /\ Len(queries) >= 2
    /\ queryCalls > 0
    /\ qweight = totalWeight - 1
    /\ qinvoked = <<Len(queries)>>

\* ----------------------------------------------------- program properties
\* C3: a failed http.Post does not stop the worker or the process: the
\* step of query() that follows a Post error leaves the process running
\* and takes the same worker, with its buffer reset, to the select of its
\* next iteration.
C3_SendFailureContinues ==
    [][\A w \in Workers :
          (pc[w] = "posted" /\ postErr[w] # "none" /\ pc'[w] # "posted") =>
              /\ ~exited'
              /\ pc'[w] = "select"
              /\ buf'[w] = 0]_vars

\* C4: counter grows by exactly 1 in every call of query(), whether the
\* send succeeded or failed, and changes in no other step.
C4_CountedOncePerAttempt ==
    [][/\ \A w \in Workers :
             (pc[w] = "posted" /\ pc'[w] # "posted") => counter' = counter + 1
       /\ (counter' # counter) =>
             \E w \in Workers : pc[w] = "posted" /\ pc'[w] # "posted"]_vars

\* C5: one publication is enough for every worker to leave its start-up
\* wait: once a snapshot has been published, and with no cancellation and
\* no fatal error, no worker sits in the start-up receive in front of an
\* empty channel, where only a further publication can release it.
C5_OnePublicationStartsAll ==
    (published >= 1 /\ ~cancelled /\ ~exited /\ Len(stateChannel) = 0) =>
        \A w \in Workers : pc[w] # "start"

\* C6: after cancellation no worker stays blocked forever: there is no
\* state in which ctx is cancelled, the producer has returned, the channel
\* is empty and a worker still waits in its start-up receive, which
\* nothing can complete any more.
C6_CancelStopsWorkers ==
    ~(/\ cancelled
      /\ ~exited
      /\ prodPc = "returned"
      /\ Len(stateChannel) = 0
      /\ \E w \in Workers : pc[w] = "start")

\* C7: both producer waits stop the producer on cancellation: when cancel()
\* was called while the producer stood in its refresh-interval wait or in
\* its empty-block backoff, the step that leaves that wait ends the
\* goroutine, so that it calls Refresh no more and publishes nothing more.
C7_WaitsStopOnCancel ==
    [][(/\ cancelled
        /\ prodPc \in {"interval", "backoff"}
        /\ cancelledAt = prodPc
        /\ prodPc' # prodPc) =>
          /\ prodPc' = "returned"
          /\ snapshots' = snapshots
          /\ published' = published]_vars

\* C19: every registered generator is selectable: each entry of a registry
\* built by Add with positive weights, also one of weight 1 and the one at
\* the last position of the walk, is invoked by Query for at least one draw
\* in [0, totalWeight).
C19_EverySelectable ==
    \A i \in 1..Len(queries) : DrawsSelecting(i) # {}

\* ------------------------------------------- properties of the running program
\* Worker v has a step to take: it is in its loop and either past the
\* select or at a select it may pass.
InLoop(v) ==
    \/ pc[v] \in {"query", "post", "posted"}
    \/ pc[v] = "select" /\ counter + InFlight < MaxCounter

WorkerStep(v) ==
    \/ SelectRecv(v)
    \/ SelectDefault(v)
    \/ \E r \in RandInt64, outcome \in GenOutcomes : WorkerQuery(v, r, outcome)
    \/ \E e \in PostOutcomes : WorkerPost(v, e)
    \/ WorkerCount(v)

\* C11: when Query returns io.EOF to a worker that worker returns for good
\* and dispatches no more, the process keeps running, and every other
\* worker is left where it was and still has its next step to take.
C11_EOFStopsOnlyThatWorker ==
    /\ [][\A w \in Workers :
             /\ (pc[w] = "query" /\ pc'[w] = "done") =>
                   /\ ~exited'
                   /\ counter' = counter
                   /\ \A v \in Workers \ {w} :
                         /\ pc'[v] = pc[v]
                         /\ state'[v] = state[v]
                         /\ attempts'[v] = attempts[v]
             /\ (pc[w] = "done") =>
                   /\ pc'[w] = "done"
                   /\ invocations'[w] = invocations[w]
                   /\ attempts'[w] = attempts[w]]_vars
    /\ [](\A w \in Workers, v \in Workers :
             (pc[w] = "done" /\ ~exited /\ v # w /\ InLoop(v)) =>
                 ENABLED WorkerStep(v))

C11_Witness ==
    \E w \in Workers, v \in Workers :
        /\ pc[w] = "done"
        /\ ~exited
        /\ v # w
        /\ pc[v] = "posted"
        /\ invocations[v] > invocations[w]

\* C12 as claimed: a worker whose generator returns io.EOF on its k-th
\* invocation has exactly k counted dispatch attempts when it terminates.
C12_EOFAfterKAttempts ==
    \A w \in Workers : pc[w] = "done" => attempts[w] = invocations[w]

\* C12 amended: a worker whose generator returns io.EOF on its k-th
\* invocation terminates with exactly k - 1 counted dispatch attempts (on
\* the second invocation: exactly 1), the EOF invocation itself being
\* neither sent nor counted, and its termination leaves the other workers
\* and the process running.
C12_EOFAfterKMinusOneAttempts ==
    /\ [](\A w \in Workers :
             pc[w] = "done" =>
                 /\ invocations[w] >= 1
                 /\ attempts[w] = invocations[w] - 1)
    /\ [][\A w \in Workers :
             (pc[w] # "done" /\ pc'[w] = "done") =>
                 /\ ~exited'
                 /\ \A v \in Workers \ {w} : pc'[v] = pc[v]]_vars

C12_Witness ==
    \E w \in Workers, v \in Workers :
        /\ v # w
        /\ pc[w] = "done"
        /\ invocations[w] = 2
        /\ attempts[w] = 1
        /\ ~exited
        /\ pc[v] \in {"select", "query", "post", "posted"}

C14_RefreshFailureFatal ==
    /\ [](refreshErr = "error" =>
              /\ exited
              /\ exitCode = 2
              /\ prodPc = "refresh")
    /\ [][(refreshErr' = "error" /\ refreshErr # "error") =>
              /\ published' = published
              /\ snapshots' = snapshots
              /\ stateChannel' = stateChannel]_vars
    /\ [][exited => UNCHANGED vars]_vars

C14_Witness ==
    /\ refreshErr = "error"
    /\ exited
    /\ exitCode = 2
    /\ \E w \in Workers : state[w] # 0 /\ pc[w] \in {"query", "post", "posted"}

RECURSIVE SumAttempts(_)
SumAttempts(S) ==
    IF S = {} THEN 0
    ELSE LET w == CHOOSE x \in S : TRUE
         IN  attempts[w] + SumAttempts(S \ {w})

\* C15: the increments of counter are atomic: under every interleaving
\* counter is the number of sends the workers have completed, so when each
\* of the W workers has completed exactly K sends counter is W*K.
C15_NoLostUpdate ==
    /\ counter = SumAttempts(Workers)
    /\ \A K \in 0..MaxCounter :
          (\A w \in Workers : attempts[w] = K) => counter = numWorkers * K

C15_Witness ==
    /\ \A w \in Workers : attempts[w] = 1 /\ pc[w] = "select"
    /\ counter = numWorkers

\* C16: a worker that holds a snapshot never waits for a newer one: at its
\* select, with nothing pending and ctx not cancelled, the default case is
\* ready and takes it to Query with its snapshot unchanged; with a snapshot
\* pending the step to Query may adopt that snapshot and nothing else.
C16_NonBlockingPickup ==
    /\ [](\A w \in Workers :
             (/\ pc[w] = "select"
              /\ ~exited
              /\ ~cancelled
              /\ Len(stateChannel) = 0
              /\ counter + InFlight < MaxCounter) => ENABLED SelectDefault(w))
    /\ [][\A w \in Workers :
             (pc[w] = "select" /\ pc'[w] # "select" /\ ~cancelled) =>
                 /\ pc'[w] = "query"
                 /\ IF Len(stateChannel) = 0
                    THEN state'[w] = state[w]
                    ELSE state'[w] \in {state[w], Head(stateChannel)}]_vars

C16_Witness ==
    \E w \in Workers :
        /\ pc[w] = "query"
        /\ attempts[w] >= 1
        /\ state[w] # 0
        /\ Len(stateChannel) = 0
        /\ ~cancelled
        /\ ~exited

\* The snapshots waiting in the channel.
Pending == {stateChannel[i] : i \in 1..Len(stateChannel)}

\* C17: single-slot hand-off: a published snapshot is received by at most
\* one worker: a worker's snapshot changes only by taking the head of the
\* channel out of it, one worker per step, so no two workers hold the same
\* publication, none holds one still pending, and the other workers keep
\* what they hold.
C17_SingleSlotHandOff ==
    /\ [](\A w \in Workers, v \in Workers :
             (w # v /\ state[w] # 0) => state[w] # state[v])
    /\ [](\A w \in Workers : state[w] \notin Pending)
    /\ [][\A w \in Workers :
             state'[w] # state[w] =>
                 /\ Len(stateChannel) > 0
                 /\ state'[w] = Head(stateChannel)
                 /\ stateChannel' = Tail(stateChannel)
                 /\ \A v \in Workers \ {w} : state'[v] = state[v]]_vars

C17_Witness ==
    /\ published >= 2
    /\ \E w \in Workers, v \in Workers :
          /\ state[w] = 1
          /\ state[v] = 2
          /\ pc[w] \in {"select", "query", "post", "posted"}

\* C18: the throughput loop only observes: a sample logs the current
\* reading of counter minus the previous one and stores the current reading
\* as the previous, changing nothing else; every logged delta is >= 0 and
\* the deltas logged so far add up to the last reading.
C18_ReporterObserves ==
    /\ [][(\/ prevCounter' # prevCounter
           \/ reqsPerSecond' # reqsPerSecond
           \/ sumReported' # sumReported) =>
              /\ reqsPerSecond' = counter - prevCounter
              /\ prevCounter' = counter
              /\ sumReported' = sumReported + reqsPerSecond'
              /\ counter' = counter
              /\ UNCHANGED <<ctlVars, prodVars, wrkVars, genVars>>]_vars
    /\ [](/\ sumReported = prevCounter
          /\ prevCounter <= counter
          /\ (reqsPerSecond >= 0 \/ (reqsPerSecond = -1 /\ sumReported = 0)))

C18_Witness ==
    /\ counter >= 2
    /\ prevCounter = counter
    /\ reqsPerSecond >= 1
    /\ reqsPerSecond < prevCounter
    /\ sumReported = counter

\* C20: a worker never goes back to an older snapshot and never holds a
\* value that was not published: its snapshot changes only to one published
\* later than the one it holds, and once past its start-up receive it holds
\* the number of a snapshot that a successful Refresh produced and the
\* producer sent.
C20_NoRegression ==
    /\ [][\A w \in Workers :
             state'[w] # state[w] => state'[w] > state[w]]_vars
    /\ [](\A w \in Workers :
             /\ pc[w] = "start" => state[w] = 0
             /\ pc[w] # "start" => state[w] \in 1..published)
    /\ [](published <= snapshots /\ Pending \subseteq 1..published)

C20_Witness ==
    \E w \in Workers :
        /\ state[w] = 2
        /\ attempts[w] >= 1
        /\ \A v \in Workers \ {w} : pc[v] = "start"

====
